---- MODULE Spec2Model ----
(***************************************************************************)
(* A model of the hive driver's connection layer (connection.go):          *)
(* Connect / ConnectWithUser open a thrift socket and negotiate a session, *)
(* Close closes the session, Query / Exec submit a statement.  The thrift  *)
(* server is the environment: every RPC either fails at the transport/RPC  *)
(* layer or returns a response whose fields the server chooses.            *)
(*                                                                         *)
(* Go pointers are modelled as records; the nil pointer is the record Nil. *)
(* `last` is the record of the most recent call: the receiver as it was    *)
(* before the call, the RPCs the call issued, what it returned, and which  *)
(* call it came after.                                                     *)
(*                                                                         *)
(* Three specifications share the module.  Spec is the connection layer,   *)
(* one call per step.  RowSetSpec is the result cursor a Query returns     *)
(* (its code is not in connection.go; it follows the design document).     *)
(* RaceSpec is two callers using one Connection at once, one step per read *)
(* or write of the Connection and per RPC sent or answered.                *)
(* Each specification leaves the variables of the others alone.            *)
(***************************************************************************)
EXTENDS Integers, Sequences, FiniteSets, TLC

VARIABLES conns, transports, last, cursor, wire, yielded,
          callers, sent, serialized

vars == <<conns, transports, last, cursor, wire, yielded, callers, sent, serialized>>

\* the variables of the result cursor
rsvars == <<cursor, wire, yielded, last>>

\* the variables of the concurrent callers
racevars == <<conns, callers, sent, serialized>>

\* ---------------------------------------------------------------- bounds
MaxTransports == 1
NumSessionHandles == 2
NumOperationHandles == 1

\* ---------------------------------------------------------------- values
Nil == [nil |-> TRUE]

HostPorts == {"hive:10000"}
Usernames == {"hive"}
Passwords == {"secret"}
Statements == {"SELECT 1"}

\* inf.TStatusCode, the status codes of the thrift interface
TStatusCode ==
    {"SUCCESS_STATUS", "SUCCESS_WITH_INFO_STATUS", "STILL_EXECUTING_STATUS",
     "ERROR_STATUS", "INVALID_HANDLE_STATUS"}

\* inf.TStatus
TStatus == {[StatusCode |-> code] : code \in TStatusCode}

\* inf.TSessionHandle / inf.TOperationHandle, assigned by the server
TSessionHandle == {[sessionId |-> i] : i \in 1..NumSessionHandles}
TOperationHandle == {[operationId |-> i] : i \in 1..NumOperationHandles}

DefaultOptions == [PollIntervalSeconds |-> 5, BatchSize |-> 10000]

\* the Options values callers pass in
OptionsValues == {DefaultOptions, [PollIntervalSeconds |-> 1, BatchSize |-> 2]}

\* ------------------------------------------------------ the thrift server
\* what an RPC can come back with: an error of the transport/RPC layer and
\* no response, or a response and a nil error
RPCError == [error |-> "thrift"]

OpenSessionReplies ==
    {[err |-> RPCError, resp |-> Nil]} \cup
    {[err |-> Nil, resp |-> [Status |-> st, SessionHandle |-> h]] :
        st \in TStatus, h \in TSessionHandle \cup {Nil}}

CloseSessionReplies ==
    {[err |-> RPCError, resp |-> Nil]} \cup
    {[err |-> Nil, resp |-> [Status |-> st]] : st \in TStatus}

ExecuteStatementReplies ==
    {[err |-> RPCError, resp |-> Nil]} \cup
    {[err |-> Nil, resp |-> [Status |-> st, OperationHandle |-> h]] :
        st \in TStatus, h \in TOperationHandle \cup {Nil}}

\* one RPC as it went over the wire
RPC(method, req, reply) ==
    [method |-> method, req |-> req, err |-> reply.err, resp |-> reply.resp]

\* ---------------------------------------------------------------- helpers
\* fmt.Errorf(format, args...)
Errorf(format, args) == [format |-> format, args |-> args]

\* the error of a failed transport.Open()
OpenError == [error |-> "transport.Open"]

\* (*inf.TStatus).String()
String(p) == <<"TStatus", p.StatusCode>>

\* isSuccessStatus checking only for the error code
isSuccessStatus_OnlyErrorFails(p) ==
    LET status == p.StatusCode
    IN  status # "ERROR_STATUS"

\* isSuccessStatus without the SUCCESS_WITH_INFO_STATUS disjunct
isSuccessStatus_NoInfo(p) ==
    LET status == p.StatusCode
    IN  status = "SUCCESS_STATUS"

isSuccessStatus(p) ==
    LET status == p.StatusCode
    IN  status = "SUCCESS_STATUS" \/ status = "SUCCESS_WITH_INFO_STATUS"

\* isOpen not looking at the session
isOpen_Always(c) == TRUE

isOpen(c) == c.session # Nil

\* newRowSet(thrift, operation, options)
newRowSet(thrift, operation, options) ==
    [thrift |-> thrift, operation |-> operation, options |-> options]

\* the record of a call: op on connection c (0 when there is none), whose
\* value was self when the call began; the call came after the call in `last`
Call(op, c, self, rpcs, ret, err) ==
    [op |-> op, c |-> c, self |-> self, rpcs |-> rpcs, ret |-> ret, err |-> err,
     after |-> [op |-> last.op, c |-> last.c]]

\* ------------------------------------------------------------------- Init
Init ==
    /\ conns = <<>>
    /\ transports = <<>>
    /\ last = [op |-> "none", c |-> 0, self |-> Nil, rpcs |-> <<>>, ret |-> Nil,
               err |-> Nil, after |-> [op |-> "none", c |-> 0]]
    /\ cursor = Nil
    /\ wire = Nil
    /\ yielded = <<>>
    /\ callers = <<>>
    /\ sent = <<>>
    /\ serialized = TRUE

\* Connect sending the open-session RPC although the socket did not open
Connect_RPCBeforeOpen(hostPort, options) ==
    /\ Len(transports) < MaxTransports
    /\ \E opened \in BOOLEAN, reply \in OpenSessionReplies :
         LET s == [ClientProtocol |-> 6]
             client == Len(transports) + 1
             rpc == RPC("OpenSession", s, reply)
         IN  IF ~opened
             THEN /\ last' = Call("Connect", 0, Nil, <<rpc>>, Nil, OpenError)
                  /\ UNCHANGED <<conns, transports>>
             ELSE /\ transports' = Append(transports, [hostPort |-> hostPort, open |-> TRUE])
                  /\ IF reply.err # Nil
                     THEN /\ last' = Call("Connect", 0, Nil, <<rpc>>, Nil, reply.err)
                          /\ UNCHANGED conns
                     ELSE /\ conns' = Append(conns,
                                 [thrift |-> client,
                                  session |-> reply.resp.SessionHandle,
                                  options |-> options])
                          /\ last' = Call("Connect", Len(conns) + 1, Nil, <<rpc>>,
                                          [ptr |-> Len(conns) + 1], Nil)

\* ---------------------------------------------------------------- Connect
Connect(hostPort, options) ==
    /\ Len(transports) < MaxTransports
    /\ \E opened \in BOOLEAN :
         IF ~opened
         THEN /\ last' = Call("Connect", 0, Nil, <<>>, Nil, OpenError)
              /\ UNCHANGED <<conns, transports>>
         ELSE \E reply \in OpenSessionReplies :
                LET s == [ClientProtocol |-> 6]
                    client == Len(transports) + 1
                    rpc == RPC("OpenSession", s, reply)
                IN  /\ transports' = Append(transports, [hostPort |-> hostPort, open |-> TRUE])
                    /\ IF reply.err # Nil
                       THEN /\ last' = Call("Connect", 0, Nil, <<rpc>>, Nil, reply.err)
                            /\ UNCHANGED conns
                       ELSE /\ conns' = Append(conns,
                                   [thrift |-> client,
                                    session |-> reply.resp.SessionHandle,
                                    options |-> options])
                            /\ last' = Call("Connect", Len(conns) + 1, Nil, <<rpc>>,
                                            [ptr |-> Len(conns) + 1], Nil)

\* -------------------------------------------------------- ConnectWithUser
ConnectWithUser(hostPort, username, password, options) ==
    /\ Len(transports) < MaxTransports
    /\ \E opened \in BOOLEAN :
         IF ~opened
         THEN /\ last' = Call("ConnectWithUser", 0, Nil, <<>>, Nil, OpenError)
              /\ UNCHANGED <<conns, transports>>
         ELSE \E reply \in OpenSessionReplies :
                LET s == [ClientProtocol |-> 6, Username |-> username,
                          Password |-> password]
                    client == Len(transports) + 1
                    rpc == RPC("OpenSession", s, reply)
                IN  /\ transports' = Append(transports, [hostPort |-> hostPort, open |-> TRUE])
                    /\ IF reply.err # Nil
                       THEN /\ last' = Call("ConnectWithUser", 0, Nil, <<rpc>>, Nil, reply.err)
                            /\ UNCHANGED conns
                       ELSE /\ conns' = Append(conns,
                                   [thrift |-> client,
                                    session |-> reply.resp.SessionHandle,
                                    options |-> options])
                            /\ last' = Call("ConnectWithUser", Len(conns) + 1, Nil, <<rpc>>,
                                            [ptr |-> Len(conns) + 1], Nil)

\* ------------------------------------------------------------------ Close
\* closeReq := inf.NewTCloseSessionReq(); closeReq.SessionHandle = c.session
NewTCloseSessionReq_NoHandle(session) == [SessionHandle |-> Nil]

NewTCloseSessionReq(session) == [SessionHandle |-> session]

Close(c) ==
    LET self == conns[c]
    IN  /\ IF isOpen(self)
           THEN \E reply \in CloseSessionReplies :
                  LET closeReq == NewTCloseSessionReq(self.session)
                      rpc == RPC("CloseSession", closeReq, reply)
                  IN  IF reply.err # Nil
                      THEN /\ last' = Call("Close", c, self, <<rpc>>, Nil,
                                           Errorf("Error closing session: ",
                                                  <<reply.resp, reply.err>>))
                           /\ UNCHANGED conns
                      ELSE /\ conns' = [conns EXCEPT ![c].session = Nil]
                           /\ last' = Call("Close", c, self, <<rpc>>, Nil, Nil)
           ELSE /\ last' = Call("Close", c, self, <<>>, Nil, Nil)
                /\ UNCHANGED conns
        /\ UNCHANGED transports

\* ------------------------------------------------------------------ Query
\* QueryCall sending the statement a second time when the RPC fails
QueryCall_Retry(c, self, query, reply) ==
    LET executeReq == [SessionHandle |-> self.session, Statement |-> query]
        rpc == RPC("ExecuteStatement", executeReq, reply)
    IN  IF reply.err # Nil
        THEN Call("Query", c, self, <<rpc, rpc>>, Nil,
                  Errorf("Error in ExecuteStatement: %+v, %v",
                         <<reply.resp, reply.err>>))
        ELSE IF ~isSuccessStatus(reply.resp.Status)
        THEN Call("Query", c, self, <<rpc>>, Nil,
                  Errorf("Error from server: %s", <<String(reply.resp.Status)>>))
        ELSE Call("Query", c, self, <<rpc>>,
                  newRowSet(self.thrift, reply.resp.OperationHandle, self.options),
                  Nil)

\* QueryCall handing the RowSet the default options
QueryCall_DefaultOptions(c, self, query, reply) ==
    LET executeReq == [SessionHandle |-> self.session, Statement |-> query]
        rpc == RPC("ExecuteStatement", executeReq, reply)
    IN  IF reply.err # Nil
        THEN Call("Query", c, self, <<rpc>>, Nil,
                  Errorf("Error in ExecuteStatement: %+v, %v",
                         <<reply.resp, reply.err>>))
        ELSE IF ~isSuccessStatus(reply.resp.Status)
        THEN Call("Query", c, self, <<rpc>>, Nil,
                  Errorf("Error from server: %s", <<String(reply.resp.Status)>>))
        ELSE Call("Query", c, self, <<rpc>>,
                  newRowSet(self.thrift, reply.resp.OperationHandle, DefaultOptions),
                  Nil)

\* what one Query call on the Connection value self does when the server
\* answers its ExecuteStatement with reply
QueryCall(c, self, query, reply) ==
    LET executeReq == [SessionHandle |-> self.session, Statement |-> query]
        rpc == RPC("ExecuteStatement", executeReq, reply)
    IN  IF reply.err # Nil
        THEN Call("Query", c, self, <<rpc>>, Nil,
                  Errorf("Error in ExecuteStatement: %+v, %v",
                         <<reply.resp, reply.err>>))
        ELSE IF ~isSuccessStatus(reply.resp.Status)
        THEN Call("Query", c, self, <<rpc>>, Nil,
                  Errorf("Error from server: %s", <<String(reply.resp.Status)>>))
        ELSE Call("Query", c, self, <<rpc>>,
                  newRowSet(self.thrift, reply.resp.OperationHandle, self.options),
                  Nil)

\* Query opening a new session when it finds the session closed
Query_Reconnect(c, query) ==
    /\ \E reply \in ExecuteStatementReplies, reopen \in OpenSessionReplies :
         IF conns[c].session = Nil /\ reopen.err = Nil
         THEN /\ conns' = [conns EXCEPT ![c].session = reopen.resp.SessionHandle]
              /\ last' = QueryCall(c, conns'[c], query, reply)
         ELSE /\ last' = QueryCall(c, conns[c], query, reply)
              /\ UNCHANGED conns
    /\ UNCHANGED transports

\* Query giving up the session when the statement fails
Query_CloseOnError(c, query) ==
    /\ \E reply \in ExecuteStatementReplies :
         /\ last' = QueryCall(c, conns[c], query, reply)
         /\ conns' = IF last'.err # Nil
                     THEN [conns EXCEPT ![c].session = Nil]
                     ELSE conns
    /\ UNCHANGED transports

Query(c, query) ==
    /\ \E reply \in ExecuteStatementReplies :
         last' = QueryCall(c, conns[c], query, reply)
    /\ UNCHANGED <<conns, transports>>

\* ------------------------------------------------------------------- Exec
\* ExecCall without the status check
ExecCall_NoStatusCheck(c, self, query, reply) ==
    LET executeReq == [SessionHandle |-> self.session, Statement |-> query]
        rpc == RPC("ExecuteStatement", executeReq, reply)
    IN  IF reply.err # Nil
        THEN Call("Exec", c, self, <<rpc>>, Nil,
                  Errorf("Error in ExecuteStatement: %+v, %v",
                         <<reply.resp, reply.err>>))
        ELSE Call("Exec", c, self, <<rpc>>, reply.resp, reply.err)

ExecCall(c, self, query, reply) ==
    LET executeReq == [SessionHandle |-> self.session, Statement |-> query]
        rpc == RPC("ExecuteStatement", executeReq, reply)
    IN  IF reply.err # Nil
        THEN Call("Exec", c, self, <<rpc>>, Nil,
                  Errorf("Error in ExecuteStatement: %+v, %v",
                         <<reply.resp, reply.err>>))
        ELSE IF ~isSuccessStatus(reply.resp.Status)
        THEN Call("Exec", c, self, <<rpc>>, Nil,
                  Errorf("Error from server: %s", <<String(reply.resp.Status)>>))
        ELSE Call("Exec", c, self, <<rpc>>, reply.resp, reply.err)

Exec(c, query) ==
    /\ \E reply \in ExecuteStatementReplies :
         last' = ExecCall(c, conns[c], query, reply)
    /\ UNCHANGED <<conns, transports>>

\* ------------------------------------------------------------------- Next
Next ==
    \/ \E hp \in HostPorts, o \in OptionsValues :
         Connect(hp, o) /\ UNCHANGED <<cursor, wire, yielded, callers, sent, serialized>>
    \/ \E hp \in HostPorts, u \in Usernames, pw \in Passwords, o \in OptionsValues :
         ConnectWithUser(hp, u, pw, o) /\ UNCHANGED <<cursor, wire, yielded, callers, sent, serialized>>
    \/ \E c \in DOMAIN conns :
         Close(c) /\ UNCHANGED <<cursor, wire, yielded, callers, sent, serialized>>
    \/ \E c \in DOMAIN conns, q \in Statements :
         Query(c, q) /\ UNCHANGED <<cursor, wire, yielded, callers, sent, serialized>>
    \/ \E c \in DOMAIN conns, q \in Statements :
         Exec(c, q) /\ UNCHANGED <<cursor, wire, yielded, callers, sent, serialized>>

Spec == Init /\ [][Next]_vars

\* ================================================================ RowSet
\* The result cursor that newRowSet returns.  Its states are
\*   Created -> Polling -> Ready -> (fetch) -> Ready -> Exhausted,
\* and Failed from Polling or from a fetch.  One step is one RPC of the
\* cursor or one read by the caller.

\* ---------------------------------------------------------------- bounds
\* the server answers at most MaxPolls polls with a non-terminal state,
\* sends at most MaxFetches pages and at most MaxPage rows in a page
MaxPolls == 3
MaxFetches == 3
MaxPage == 2

\* the operation states the server reports
NonTerminalStates == {"INITIALIZED_STATE", "PENDING_STATE", "RUNNING_STATE"}
ErrorStates == {"CANCELED_STATE", "ERROR_STATE"}
GoneStates == {"CLOSED_STATE", "UKNOWN_STATE"}
OperationStates ==
    NonTerminalStates \cup {"FINISHED_STATE"} \cup ErrorStates \cup GoneStates

\* the errors of the cursor
ProtocolError(cause) == [kind |-> "ProtocolError", cause |-> cause]
ApplicationError(status) == [kind |-> "ApplicationError", statusText |-> String(status)]
OperationError(state) == [kind |-> "OperationError", text |-> state]
OperationGoneError == [kind |-> "OperationGoneError"]

\* what a read returns when the cursor is exhausted
NoMoreRows == [done |-> TRUE]

Min(a, b) == IF a < b THEN a ELSE b

\* GetOperationStatus(operationHandle) -> {status, operationState}; the
\* server stops answering with non-terminal states after MaxPolls polls
GetOperationStatusReplies(polls) ==
    {[err |-> RPCError, resp |-> Nil]} \cup
    {[err |-> Nil, resp |-> [Status |-> st, OperationState |-> os]] :
        st \in TStatus,
        os \in IF polls < MaxPolls THEN OperationStates
               ELSE OperationStates \ NonTerminalStates}

\* FetchResults(operationHandle, orientation, maxRows)
\*     -> {status, results{rows, hasMoreRows}}
\* the rows of a result set are numbered in the order the server sends them;
\* a page has at most maxRows rows, and the page number MaxFetches is the last
FetchResultsReplies(maxRows, fetches, before) ==
    {[err |-> RPCError, resp |-> Nil]} \cup
    {[err |-> Nil,
      resp |-> [Status |-> st,
                Results |-> [Rows |-> [i \in 1..n |-> before + i],
                             HasMoreRows |-> more]]] :
        st \in TStatus,
        n \in 0..Min(maxRows, MaxPage),
        more \in IF fetches + 1 < MaxFetches THEN BOOLEAN ELSE {FALSE}}

\* a poll treating a running operation as complete
PollOutcome_RunningIsReady(reply) ==
    IF reply.err # Nil
    THEN [state |-> "Failed", err |-> ProtocolError(reply.err)]
    ELSE IF ~isSuccessStatus(reply.resp.Status)
    THEN [state |-> "Failed", err |-> ApplicationError(reply.resp.Status)]
    ELSE IF reply.resp.OperationState \in NonTerminalStates \ {"RUNNING_STATE"}
    THEN [state |-> "Polling", err |-> Nil]
    ELSE IF reply.resp.OperationState \in {"FINISHED_STATE", "RUNNING_STATE"}
    THEN [state |-> "Ready", err |-> Nil]
    ELSE IF reply.resp.OperationState \in ErrorStates
    THEN [state |-> "Failed", err |-> OperationError(reply.resp.OperationState)]
    ELSE [state |-> "Failed", err |-> OperationGoneError]

\* the state a poll leaves the cursor in, and the error it captures
PollOutcome(reply) ==
    IF reply.err # Nil
    THEN [state |-> "Failed", err |-> ProtocolError(reply.err)]
    ELSE IF ~isSuccessStatus(reply.resp.Status)
    THEN [state |-> "Failed", err |-> ApplicationError(reply.resp.Status)]
    ELSE IF reply.resp.OperationState \in NonTerminalStates
    THEN [state |-> "Polling", err |-> Nil]
    ELSE IF reply.resp.OperationState = "FINISHED_STATE"
    THEN [state |-> "Ready", err |-> Nil]
    ELSE IF reply.resp.OperationState \in ErrorStates
    THEN [state |-> "Failed", err |-> OperationError(reply.resp.OperationState)]
    ELSE [state |-> "Failed", err |-> OperationGoneError]

\* a cursor that polls again after it failed
CanPoll_AlsoFailed(cur) == cur.state \in {"Created", "Polling", "Failed"}

\* the cursor polls until the operation is terminal, and not afterwards
CanPoll(cur) == cur.state \in {"Created", "Polling"}

\* a cursor that never notices the end of the data
Drained_StaysReady(buffer, hasMore) == "Ready"

\* the state of a cursor that is ready, by what is left to serve
Drained(buffer, hasMore) ==
    IF buffer = <<>> /\ ~hasMore THEN "Exhausted" ELSE "Ready"

\* Polling: one get-operation-status RPC; a non-terminal state makes the
\* cursor wait PollIntervalSeconds before the next poll
Poll ==
    /\ cursor # Nil
    /\ CanPoll(cursor)
    /\ \E reply \in GetOperationStatusReplies(wire.status) :
         LET req == [OperationHandle |-> cursor.rowset.operation]
             rpc == RPC("GetOperationStatus", req, reply)
             out == PollOutcome(reply)
             answered == reply.err = Nil
             waits == out.state = "Polling"
         IN  /\ cursor' = [cursor EXCEPT
                    !.state = out.state,
                    !.err = out.err,
                    !.opstate = IF answered THEN reply.resp.OperationState ELSE @]
             /\ wire' = [wire EXCEPT
                    !.status = @ + 1,
                    !.nonterminal = IF answered /\ reply.resp.OperationState \in NonTerminalStates
                                    THEN @ + 1 ELSE @,
                    !.waited = IF waits THEN @ + cursor.rowset.options.PollIntervalSeconds
                               ELSE @]
             /\ last' = Call("Poll", 0, Nil, <<rpc>>, Nil, out.err)
    /\ UNCHANGED <<yielded, conns, transports, callers, sent, serialized>>

\* Fetching: the buffer is empty, so the cursor asks for the next page of at
\* most BatchSize rows
Fetch ==
    /\ cursor # Nil
    /\ cursor.state = "Ready"
    /\ cursor.buffer = <<>>
    /\ wire.fetch < MaxFetches
    /\ \E reply \in FetchResultsReplies(cursor.rowset.options.BatchSize,
                                       wire.fetch, Len(wire.rows)) :
         LET req == [OperationHandle |-> cursor.rowset.operation,
                     Orientation |-> "FETCH_NEXT",
                     MaxRows |-> cursor.rowset.options.BatchSize]
             rpc == RPC("FetchResults", req, reply)
         IN  /\ wire' = [wire EXCEPT
                    !.fetch = @ + 1,
                    !.rows = IF reply.err = Nil /\ isSuccessStatus(reply.resp.Status)
                             THEN @ \o reply.resp.Results.Rows ELSE @]
             /\ IF reply.err # Nil
                THEN /\ cursor' = [cursor EXCEPT !.state = "Failed",
                                                 !.err = ProtocolError(reply.err)]
                     /\ last' = Call("Fetch", 0, Nil, <<rpc>>, Nil, cursor'.err)
                ELSE IF ~isSuccessStatus(reply.resp.Status)
                THEN /\ cursor' = [cursor EXCEPT !.state = "Failed",
                                                 !.err = ApplicationError(reply.resp.Status)]
                     /\ last' = Call("Fetch", 0, Nil, <<rpc>>, Nil, cursor'.err)
                ELSE /\ cursor' = [cursor EXCEPT
                           !.buffer = reply.resp.Results.Rows,
                           !.hasMore = reply.resp.Results.HasMoreRows,
                           !.state = Drained(reply.resp.Results.Rows,
                                             reply.resp.Results.HasMoreRows)]
                     /\ last' = Call("Fetch", 0, Nil, <<rpc>>, Nil, Nil)
    /\ UNCHANGED <<yielded, conns, transports, callers, sent, serialized>>

\* the caller reads: the next buffered row, "no more rows" once the cursor
\* is exhausted, the captured error once it has failed
Read ==
    /\ cursor # Nil
    /\ \/ /\ cursor.state = "Ready"
          /\ cursor.buffer # <<>>
          /\ yielded' = Append(yielded, Head(cursor.buffer))
          /\ cursor' = [cursor EXCEPT
                 !.buffer = Tail(@),
                 !.state = Drained(Tail(cursor.buffer), cursor.hasMore)]
          /\ last' = Call("Read", 0, Nil, <<>>, [row |-> Head(cursor.buffer)], Nil)
       \/ /\ cursor.state = "Exhausted"
          /\ last' = Call("Read", 0, Nil, <<>>, NoMoreRows, Nil)
          /\ UNCHANGED <<cursor, yielded>>
       \/ /\ cursor.state = "Failed"
          /\ last' = Call("Read", 0, Nil, <<>>, Nil, cursor.err)
          /\ UNCHANGED <<cursor, yielded>>
    /\ UNCHANGED <<wire, conns, transports, callers, sent, serialized>>

\* Created: the cursor of a Query that succeeded on an open Connection; no
\* RPC of the cursor has been sent
RowSetInit ==
    \E o \in OptionsValues, h \in TOperationHandle, q \in Statements :
        LET self == [thrift |-> 1, session |-> [sessionId |-> 1], options |-> o]
            reply == [err |-> Nil,
                      resp |-> [Status |-> [StatusCode |-> "SUCCESS_STATUS"],
                                OperationHandle |-> h]]
            rpc == RPC("ExecuteStatement",
                       [SessionHandle |-> self.session, Statement |-> q], reply)
        IN  /\ conns = <<self>>
            /\ transports = <<[hostPort |-> "hive:10000", open |-> TRUE]>>
            /\ last = [op |-> "Query", c |-> 1, self |-> self, rpcs |-> <<rpc>>,
                       ret |-> newRowSet(self.thrift, h, self.options), err |-> Nil,
                       after |-> [op |-> "Connect", c |-> 1]]
            /\ cursor = [rowset |-> newRowSet(self.thrift, h, self.options),
                         state |-> "Created", buffer |-> <<>>, hasMore |-> FALSE,
                         err |-> Nil, opstate |-> "none"]
            /\ wire = [status |-> 0, nonterminal |-> 0, waited |-> 0,
                       fetch |-> 0, rows |-> <<>>]
            /\ yielded = <<>>
            /\ callers = <<>>
            /\ sent = <<>>
            /\ serialized = TRUE

RowSetNext ==
    \/ Poll
    \/ Fetch
    \/ Read

RowSetSpec == RowSetInit /\ [][RowSetNext]_vars

\* ================================================================== Race
\* Two callers share the Connection conns[1] without any lock of the driver.
\* A call is cut where it reads or writes c.session and where its RPC is
\* sent and answered; when `serialized` the callers themselves let a call
\* begin only while no other call is in progress.

\* ---------------------------------------------------------------- bounds
\* the calls made in one run
MaxCalls == 3

Callers == {1, 2}

Idle == [pc |-> "idle", op |-> "none", req |-> Nil, err |-> Nil]

Started == Len(sent) + Cardinality({p \in Callers : callers[p].pc \in {"check", "send"}})

\* a caller begins Close, Query or Exec
Begin(p, op) ==
    /\ callers[p].pc = "idle"
    /\ Started < MaxCalls
    /\ serialized => \A q \in Callers : callers[q].pc = "idle"
    /\ callers' = [callers EXCEPT ![p] =
           [pc |-> IF op = "Close" THEN "check" ELSE "send",
            op |-> op, req |-> Nil, err |-> Nil]]
    /\ UNCHANGED <<conns, sent>>

\* Close: if c.isOpen()
CloseCheck(p) ==
    /\ callers[p].pc = "check"
    /\ callers' = IF isOpen(conns[1])
                  THEN [callers EXCEPT ![p].pc = "send"]
                  ELSE [callers EXCEPT ![p].pc = "idle"]
    /\ UNCHANGED <<conns, sent>>

\* Close: closeReq.SessionHandle = c.session, and the RPC goes out
CloseSend(p) ==
    /\ callers[p].pc = "send"
    /\ callers[p].op = "Close"
    /\ LET closeReq == NewTCloseSessionReq(conns[1].session)
       IN  /\ sent' = Append(sent, [method |-> "CloseSession", req |-> closeReq,
                                    by |-> p, racing |-> FALSE])
           /\ callers' = [callers EXCEPT ![p].pc = "wait", ![p].req = closeReq]
    /\ UNCHANGED conns

\* Close: the RPC is answered; c.session = nil unless it failed
CloseReturn(p) ==
    /\ callers[p].pc = "wait"
    /\ callers[p].op = "Close"
    /\ \E reply \in CloseSessionReplies :
         IF reply.err # Nil
         THEN /\ callers' = [callers EXCEPT ![p].pc = "idle",
                     ![p].err = Errorf("Error closing session: ",
                                       <<reply.resp, reply.err>>)]
              /\ UNCHANGED conns
         ELSE /\ conns' = [conns EXCEPT ![1].session = Nil]
              /\ callers' = [callers EXCEPT ![p].pc = "idle"]
    /\ UNCHANGED sent

\* Query, Exec: executeReq.SessionHandle = c.session, and the RPC goes out;
\* `racing` tells that a Close of another caller has sent its RPC for the
\* same handle and has not returned
SubmitSend(p, query) ==
    /\ callers[p].pc = "send"
    /\ callers[p].op \in {"Query", "Exec"}
    /\ LET executeReq == [SessionHandle |-> conns[1].session, Statement |-> query]
           closing == {q \in Callers \ {p} :
                          /\ callers[q].op = "Close"
                          /\ callers[q].pc = "wait"
                          /\ callers[q].req.SessionHandle = conns[1].session}
       IN  /\ sent' = Append(sent, [method |-> "ExecuteStatement", req |-> executeReq,
                                    by |-> p,
                                    racing |-> conns[1].session # Nil /\ closing # {}])
           /\ callers' = [callers EXCEPT ![p].pc = "wait", ![p].req = executeReq]
    /\ UNCHANGED conns

\* Query, Exec: the RPC is answered
SubmitReturn(p) ==
    /\ callers[p].pc = "wait"
    /\ callers[p].op \in {"Query", "Exec"}
    /\ \E reply \in ExecuteStatementReplies :
         callers' = [callers EXCEPT ![p].pc = "idle",
             ![p].err = IF reply.err # Nil
                        THEN Errorf("Error in ExecuteStatement: %+v, %v",
                                    <<reply.resp, reply.err>>)
                        ELSE IF ~isSuccessStatus(reply.resp.Status)
                        THEN Errorf("Error from server: %s",
                                    <<String(reply.resp.Status)>>)
                        ELSE Nil]
    /\ UNCHANGED <<conns, sent>>

\* the Connection a Connect has just returned, and two idle callers
RaceInit ==
    LET self == [thrift |-> 1, session |-> [sessionId |-> 1], options |-> DefaultOptions]
        reply == [err |-> Nil,
                  resp |-> [Status |-> [StatusCode |-> "SUCCESS_STATUS"],
                            SessionHandle |-> self.session]]
        rpc == RPC("OpenSession", [ClientProtocol |-> 6], reply)
    IN  /\ conns = <<self>>
        /\ transports = <<[hostPort |-> "hive:10000", open |-> TRUE]>>
        /\ last = [op |-> "Connect", c |-> 1, self |-> Nil, rpcs |-> <<rpc>>,
                   ret |-> [ptr |-> 1], err |-> Nil,
                   after |-> [op |-> "none", c |-> 0]]
        /\ cursor = Nil
        /\ wire = Nil
        /\ yielded = <<>>
        /\ callers = [p \in Callers |-> Idle]
        /\ sent = <<>>
        /\ serialized \in BOOLEAN

\* what no step of a caller touches
Untouched == UNCHANGED <<serialized, transports, last, cursor, wire, yielded>>

RaceNext ==
    \/ \E p \in Callers, op \in {"Close", "Query", "Exec"} : Begin(p, op) /\ Untouched
    \/ \E p \in Callers : CloseCheck(p) /\ Untouched
    \/ \E p \in Callers : CloseSend(p) /\ Untouched
    \/ \E p \in Callers : CloseReturn(p) /\ Untouched
    \/ \E p \in Callers, q \in Statements : SubmitSend(p, q) /\ Untouched
    \/ \E p \in Callers : SubmitReturn(p) /\ Untouched

RaceSpec == RaceInit /\ [][RaceNext]_vars

\* ------------------------------------------------------------- properties
Connects == {"Connect", "ConnectWithUser"}
Submits == {"Query", "Exec"}
SuccessCodes == {"SUCCESS_STATUS", "SUCCESS_WITH_INFO_STATUS"}

\* the RPCs of the last call that came back with a response
Answered == {i \in DOMAIN last.rpcs : last.rpcs[i].err = Nil}

\* C1: when the close-session RPC of a Close fails at the transport/RPC
\* layer, Close returns an error and the session is closed locally afterwards
C1_FailedCloseStillCloses ==
    (last.op = "Close" /\ \E i \in DOMAIN last.rpcs : last.rpcs[i].err # Nil)
        => (last.err # Nil /\ conns[last.c].session = Nil)

\* C2: a Query or Exec on a Connection whose session is closed or was never
\* opened returns an error and sends no execute-statement RPC
C2_ClosedSessionSubmitsNothing ==
    (last.op \in Submits /\ last.self.session = Nil)
        => (last.err # Nil /\ last.rpcs = <<>>)

\* C3: Close on a Connection whose session is already closed returns nil,
\* issues no close-session RPC and leaves the state of every Connection and
\* transport as it was
C3_CloseIdempotent ==
    [][\A c \in DOMAIN conns :
          (conns[c].session = Nil /\ last'.op = "Close" /\ last'.c = c)
              => /\ last'.err = Nil
                 /\ last'.rpcs = <<>>
                 /\ conns' = conns
                 /\ transports' = transports]_vars

C3_Witness ==
    /\ last.op = "Close"
    /\ last.self.session = Nil
    /\ last.after = [op |-> "Close", c |-> last.c]
    /\ last.err = Nil

\* C4: Connect and ConnectWithUser return a Connection without error only
\* when it holds a session handle; an open-session reply without a session
\* handle makes them return an error and no Connection
C4_ConnectReturnsOpenSession ==
    last.op \in Connects
        => /\ last.ret # Nil => (last.err = Nil /\ conns[last.ret.ptr].session # Nil)
           /\ \A i \in Answered :
                 last.rpcs[i].resp.SessionHandle = Nil
                     => (last.err # Nil /\ last.ret = Nil)

\* C5: when the execute-statement RPC comes back with a status code that is
\* neither SUCCESS nor SUCCESS_WITH_INFO, Query returns no RowSet and an error
\* carrying the status text, and Exec returns no response and an error
C5_ServerErrorReturnsNoHandle ==
    \A i \in Answered :
        (last.op \in Submits /\ last.rpcs[i].resp.Status.StatusCode \notin SuccessCodes)
            => /\ last.ret = Nil
               /\ last.err # Nil
               /\ last.op = "Query" =>
                     last.err.args = <<String(last.rpcs[i].resp.Status)>>

C5_Witness ==
    /\ last.op = "Query"
    /\ last.self.session # Nil
    /\ Answered # {}
    /\ \A i \in Answered : last.rpcs[i].resp.Status.StatusCode = "ERROR_STATUS"
    /\ last.ret = Nil
    /\ last.err # Nil

\* C6: after each of OpenSession, CloseSession and ExecuteStatement, a
\* response whose status code is not SUCCESS or SUCCESS_WITH_INFO makes the
\* calling operation return an error
C6_StatusCheckedAfterEveryRPC ==
    \A i \in Answered :
        last.rpcs[i].resp.Status.StatusCode \notin SuccessCodes => last.err # Nil

\* C7: isSuccessStatus is true exactly for SUCCESS_STATUS and
\* SUCCESS_WITH_INFO_STATUS, over the whole status-code set and on every
\* status a statement submission received
C7_IsSuccessStatusExact ==
    /\ \A p \in TStatus : isSuccessStatus(p) <=> p.StatusCode \in SuccessCodes
    /\ \A i \in Answered :
          last.op \in Submits
              => (last.err = Nil <=>
                      last.rpcs[i].resp.Status.StatusCode \in SuccessCodes)

C7_Witness ==
    /\ last.op = "Exec"
    /\ Answered # {}
    /\ \A i \in Answered :
          last.rpcs[i].resp.Status.StatusCode = "SUCCESS_WITH_INFO_STATUS"
    /\ last.err = Nil

\* C8: a Close that comes right after the Connect that returned its
\* Connection with a session handle issues exactly one close-session RPC, for
\* that handle, and when the RPC succeeds Close returns nil and the session
\* is closed
C8_ConnectThenClose ==
    (/\ last.op = "Close"
     /\ last.after.op \in Connects
     /\ last.after.c = last.c
     /\ last.self.session # Nil)
        => /\ Len(last.rpcs) = 1
           /\ last.rpcs[1].method = "CloseSession"
           /\ last.rpcs[1].req.SessionHandle = last.self.session
           /\ last.rpcs[1].err = Nil
                 => (last.err = Nil /\ conns[last.c].session = Nil)

C8_Witness ==
    /\ last.op = "Close"
    /\ last.after.op \in Connects
    /\ last.after.c = last.c
    /\ last.self.session \in TSessionHandle
    /\ Answered = {1}
    /\ last.err = Nil
    /\ conns[last.c].session = Nil

\* C9: each Query or Exec issues exactly one execute-statement RPC and
\* yields at most the one operation handle of its response; when the RPC
\* fails it returns an error and no handle
C9_OneRPCPerSubmit ==
    last.op \in Submits
        => /\ Len(last.rpcs) = 1
           /\ last.rpcs[1].method = "ExecuteStatement"
           /\ last.rpcs[1].err # Nil => (last.err # Nil /\ last.ret = Nil)
           /\ (last.op = "Query" /\ last.ret # Nil)
                 => last.ret.operation = last.rpcs[1].resp.OperationHandle
           /\ (last.op = "Exec" /\ last.ret # Nil)
                 => last.ret = last.rpcs[1].resp

C9_Witness ==
    /\ last.op = "Query"
    /\ Len(last.rpcs) = 1
    /\ last.rpcs[1].err # Nil
    /\ last.err # Nil
    /\ last.ret = Nil

\* C10: a Connection whose session is closed stays closed, no call changes
\* a session handle into a different handle, and Close, Query and Exec issue
\* no open-session RPC
C10_NoReconnect ==
    [][\A c \in DOMAIN conns :
          /\ c \in DOMAIN conns'
          /\ conns[c].session = Nil => conns'[c].session = Nil
          /\ conns'[c].session \in {conns[c].session, Nil}
          /\ last'.op \in Submits \cup {"Close"}
                => \A i \in DOMAIN last'.rpcs : last'.rpcs[i].method # "OpenSession"]_vars

C10_Witness ==
    /\ last.op \in Submits
    /\ last.after = [op |-> "Close", c |-> last.c]
    /\ last.self.session = Nil
    /\ conns[last.c].session = Nil
    /\ Len(last.rpcs) = 1

\* C11: no call changes the options a Connection captured at Connect, and
\* every RowSet a Query returns carries exactly the options of its Connection
C11_OptionsFixed ==
    [][/\ \A c \in DOMAIN conns :
             c \in DOMAIN conns' /\ conns'[c].options = conns[c].options
       /\ (last'.op = "Query" /\ last'.ret # Nil)
             => /\ last'.ret.options = conns[last'.c].options
                /\ last'.ret.options = conns'[last'.c].options]_vars

C11_Witness ==
    /\ last.op = "Query"
    /\ last.after.op \in Submits
    /\ last.ret # Nil
    /\ last.ret.options = conns[last.c].options
    /\ last.ret.options # DefaultOptions

\* C16: a Query or Exec that returns an error leaves every Connection and
\* transport as it was and sends no close-session RPC, and the Query or Exec
\* that follows a failed one on the same Connection is still sent, with the
\* Connection's session handle
C16_FailedSubmitChangesNothing ==
    [][/\ (last'.op \in Submits /\ last'.err # Nil)
             => /\ conns' = conns
                /\ transports' = transports
                /\ \A i \in DOMAIN last'.rpcs : last'.rpcs[i].method # "CloseSession"
       /\ (last.op \in Submits /\ last.err # Nil
             /\ last'.op \in Submits /\ last'.c = last.c)
             => /\ Len(last'.rpcs) = 1
                /\ last'.rpcs[1].method = "ExecuteStatement"
                /\ last'.rpcs[1].req.SessionHandle = last.self.session]_vars

C16_Witness ==
    /\ last.op \in Submits
    /\ last.after.op \in Submits
    /\ last.after.c = last.c
    /\ last.err # Nil
    /\ last.self.session # Nil
    /\ conns[last.c] = last.self

\* the statements Query and Exec are compared on
ComparedStatements == Statements \cup {"DROP TABLE t"}

\* C17: on every Connection, statement and server reply, Query and Exec send
\* the same execute-statement RPC and return the same error in the same
\* cases; on success Query returns the RowSet of the response's operation
\* handle and Exec the response itself with a nil error
C17_QueryExecSameProtocol ==
    \A c \in DOMAIN conns, query \in ComparedStatements,
       reply \in ExecuteStatementReplies :
        LET q == QueryCall(c, conns[c], query, reply)
            e == ExecCall(c, conns[c], query, reply)
            ok == reply.err = Nil /\ reply.resp.Status.StatusCode \in SuccessCodes
        IN  /\ q.rpcs = e.rpcs
            /\ q.err = e.err
            /\ (q.err = Nil) <=> ok
            /\ ok => /\ q.ret = newRowSet(conns[c].thrift, reply.resp.OperationHandle,
                                          conns[c].options)
                     /\ e.ret = reply.resp
            /\ ~ok => (q.ret = Nil /\ e.ret = Nil)

C17_Witness ==
    /\ last.op = "Exec"
    /\ last.after = [op |-> "Query", c |-> last.c]
    /\ last.err = Nil
    /\ Len(last.rpcs) = 1
    /\ last.ret = last.rpcs[1].resp

\* C18: every transport binding that was opened belongs to a Connection that
\* was returned to the caller
C18_EveryTransportOwned ==
    \A t \in DOMAIN transports :
        transports[t].open => \E c \in DOMAIN conns : conns[c].thrift = t

\* C19: Connect and ConnectWithUser send the open-session RPC only once the
\* transport binding is open: when no binding was opened they send no RPC and
\* return an error and no Connection, and when the open-session RPC fails
\* they return an error and no Connection
C19_OpenBeforeOpenSession ==
    [][last'.op \in Connects
          => /\ last'.rpcs # <<>>
                   => /\ Len(last'.rpcs) = 1
                      /\ last'.rpcs[1].method = "OpenSession"
                      /\ Len(transports') = Len(transports) + 1
                      /\ transports'[Len(transports')].open
             /\ transports' = transports
                   => /\ last'.rpcs = <<>>
                      /\ last'.err # Nil
                      /\ last'.ret = Nil
                      /\ conns' = conns
             /\ (\E i \in DOMAIN last'.rpcs : last'.rpcs[i].err # Nil)
                   => /\ last'.err # Nil
                      /\ last'.ret = Nil
                      /\ conns' = conns]_vars

C19_Witness ==
    /\ last.op \in Connects
    /\ last.err = OpenError
    /\ last.rpcs = <<>>
    /\ last.ret = Nil
    /\ transports = <<>>

\* C12: the cursor sends no fetch-results RPC before a get-operation-status
\* RPC has returned FINISHED, and no status RPC after the first fetch: when
\* the operation was non-terminal for n polls, the first fetch comes after
\* exactly n + 1 status RPCs
C12_NoFetchBeforeFinished ==
    [][/\ wire'.fetch > wire.fetch
             => /\ cursor.opstate = "FINISHED_STATE"
                /\ wire.status = wire.nonterminal + 1
                /\ wire'.status = wire.status
       /\ wire'.status > wire.status => wire.fetch = 0]_rsvars

C12_Witness ==
    /\ cursor # Nil
    /\ wire.fetch = 1
    /\ wire.nonterminal = 3
    /\ wire.status = 4
    /\ last.op = "Fetch"

\* C13: the rows read so far, followed by the buffered ones, are the rows of
\* the fetched pages in order; a cursor whose last page reported
\* hasMoreRows = false and whose buffer is drained is Exhausted; an Exhausted
\* cursor sends no RPC, does not change, and answers every read with
\* "no more rows" and no error
C13_ExhaustedIsFinal ==
    /\ [](cursor # Nil =>
            /\ yielded \o cursor.buffer = wire.rows
            /\ (cursor.state = "Ready" /\ wire.fetch > 0 /\ cursor.buffer = <<>>)
                  => cursor.hasMore
            /\ cursor.state = "Exhausted"
                  => (yielded = wire.rows /\ ~cursor.hasMore /\ wire.fetch > 0))
    /\ [][(cursor # Nil /\ cursor.state = "Exhausted")
             => /\ cursor' = cursor
                /\ wire' = wire
                /\ yielded' = yielded
                /\ last'.rpcs = <<>>
                /\ last'.err = Nil
                /\ last'.ret = NoMoreRows]_rsvars

C13_Witness ==
    /\ cursor # Nil
    /\ cursor.state = "Exhausted"
    /\ wire.fetch = 3
    /\ yielded = <<1, 2, 3, 4, 5>>
    /\ last.op = "Read"
    /\ last.after.op = "Read"
    /\ last.ret = NoMoreRows

\* C14: a cursor that has failed holds an error; it stays as it is, sends no
\* RPC, and every call on it returns the captured error
C14_FailedIsAbsorbing ==
    /\ []((cursor # Nil /\ cursor.state = "Failed") => cursor.err # Nil)
    /\ [][(cursor # Nil /\ cursor.state = "Failed")
             => /\ cursor' = cursor
                /\ wire' = wire
                /\ yielded' = yielded
                /\ last'.rpcs = <<>>
                /\ last'.err = cursor.err]_rsvars

C14_Witness ==
    /\ cursor # Nil
    /\ cursor.state = "Failed"
    /\ cursor.err = ProtocolError(RPCError)
    /\ wire.fetch > 0
    /\ yielded # <<>>
    /\ last.op = "Read"
    /\ last.after.op = "Read"
    /\ last.err = cursor.err

\* two close-session RPCs were sent for the same session handle; each was
\* sent by a Close that had found the session open
DoubleClose ==
    \E i, j \in DOMAIN sent :
        /\ i < j
        /\ sent[i].method = "CloseSession"
        /\ sent[j].method = "CloseSession"
        /\ sent[i].req.SessionHandle # Nil
        /\ sent[j].req.SessionHandle = sent[i].req.SessionHandle

\* an execute-statement RPC was sent with a session handle while a Close of
\* another caller had already sent the close-session RPC for that handle
SubmitDuringClose ==
    \E j \in DOMAIN sent :
        sent[j].method = "ExecuteStatement" /\ sent[j].racing

\* C15: when the callers serialize their calls, no two Close calls both find
\* the session open and both send a close-session RPC for the same handle,
\* and no Query or Exec sends a handle that a concurrent Close is closing
C15_SerializedCallsDoNotRace ==
    serialized => (~DoubleClose /\ ~SubmitDuringClose)

\* the two races of C15 among callers that do not serialize their calls
C15_RaceOfTwoCloses ==
    /\ ~serialized
    /\ \E i, j \in DOMAIN sent :
          /\ i < j
          /\ sent[i].by # sent[j].by
          /\ sent[i].method = "CloseSession"
          /\ sent[j].method = "CloseSession"
          /\ sent[i].req.SessionHandle # Nil
          /\ sent[j].req.SessionHandle = sent[i].req.SessionHandle
          /\ callers[sent[i].by].pc = "wait"
          /\ callers[sent[j].by].pc = "wait"

C15_RaceOfSubmitAndClose ==
    ~serialized /\ SubmitDuringClose
====
